---- MODULE Spec2Model ----
(***************************************************************************)
(* Model of conv_img_to_custom_bichrome.py: the single-image pipeline      *)
(* replace_colors (decode, threshold, recolor, optional resize, encode),   *)
(* the batch driver process_images_in_folder and the control flow of main. *)
(*                                                                         *)
(* Representation                                                          *)
(*   - a file name is a sequence of one-character strings, so that         *)
(*     str.lower() and str.endswith() are computed, not assumed;           *)
(*   - a path is a sequence of names; os.path.join appends a name;         *)
(*   - an image is [mode, size, data, info]: data is the row-major         *)
(*     sequence of pixels, a pixel is a tuple of band values (one band     *)
(*     for modes "L" and "1", three for "RGB"), info is the set of         *)
(*     metadata keys the image object carries (PIL's Image.info);          *)
(*   - a file is [kind, img, format, kwargs]; for a file written by        *)
(*     Image.save, img is the image object handed to the encoder, format   *)
(*     the encoder chosen from the extension and kwargs the parameters     *)
(*     passed to save.                                                     *)
(***************************************************************************)
EXTENDS Integers, Sequences, FiniteSets

\* ------------------------------------------------------------------ bounds

\* Largest number of candidate files present in the source folder.
MaxFiles == 3

\* Largest resize width/height the operator enters (the smallest is -1).
MaxDim == 2

\* Largest width (row images) or height (column images) of a swept source.
MaxSide == 2

\* ------------------------------------------------------- program constants

threshold == 128

Quality == 85

\* ------------------------------------------------------------------ colors

Black == <<0, 0, 0>>

White == <<255, 255, 255>>

default_black_color == <<0, 0, 0>>

default_white_color == <<243, 239, 221>>

\* A color the operator enters by hand (pick_color_or_default, manual RGB).
Navy == <<18, 52, 86>>

\* What pick_color_or_default returns to main for each prompt: the default
\* or a customized color.
BlackChoices == {default_black_color, Navy}

WhiteChoices == {default_white_color}

\* The colors a direct caller of replace_colors passes for either argument.
SweepColors == {Black, White, default_white_color, Navy}

\* ------------------------------------------------------------------- names

ProcessedImages ==
  <<"p","r","o","c","e","s","s","e","d","_","i","m","a","g","e","s">>

NameA == <<"a", ".", "p", "n", "g">>

NameB == <<"B", ".", "J", "P", "G">>

NameC == <<"c", ".", "g", "i", "f">>

NameD == <<"d", ".", "j", "p", "e", "g">>

NameN == <<"n", ".", "t", "x", "t">>

NameStale == <<"o", "l", "d", ".", "p", "n", "g">>

NameOut == <<"o", ".", "j", "p", "g">>

NameOutPng == <<"o", ".", "p", "n", "g">>

NameSrc == <<"s", ".", "b", "m", "p">>

FolderName == <<"i", "n">>

\* The files that may lie directly inside the source folder.
Candidates == {NameA, NameB, NameC, NameD, NameN}

UpperCase ==
  <<"A","B","C","D","E","F","G","H","I","J","K","L","M",
    "N","O","P","Q","R","S","T","U","V","W","X","Y","Z">>

LowerCase ==
  <<"a","b","c","d","e","f","g","h","i","j","k","l","m",
    "n","o","p","q","r","s","t","u","v","w","x","y","z">>

\* str.lower() on one character.
LowerChar(c) ==
  IF \E i \in 1..Len(UpperCase) : UpperCase[i] = c
  THEN LowerCase[CHOOSE i \in 1..Len(UpperCase) : UpperCase[i] = c]
  ELSE c

\* str.lower()
Lower(s) == [i \in 1..Len(s) |-> LowerChar(s[i])]

\* str.endswith(suffix)
EndsWith(s, suffix) ==
  /\ Len(s) >= Len(suffix)
  /\ SubSeq(s, Len(s) - Len(suffix) + 1, Len(s)) = suffix

\* The tuple of extensions of line 63.
Extensions ==
  { <<".", "p", "n", "g">>, <<".", "j", "p", "g">>, <<".", "j", "p", "e", "g">>,
    <<".", "b", "m", "p">>, <<".", "g", "i", "f">> }

\* file_name.lower().endswith(('.png', '.jpg', '.jpeg', '.bmp', '.gif'))
IsImageName(file_name) ==
  \E e \in Extensions : EndsWith(Lower(file_name), e)

\* os.path.join(path, name)
Join(path, name) == Append(path, name)

\* The encoder Image.save picks from the (lower-cased) extension of the path.
FormatOf(path) ==
  LET n == Lower(path[Len(path)])
  IN  IF EndsWith(n, <<".", "p", "n", "g">>) THEN "PNG"
      ELSE IF EndsWith(n, <<".", "j", "p", "g">>) THEN "JPEG"
      ELSE IF EndsWith(n, <<".", "j", "p", "e", "g">>) THEN "JPEG"
      ELSE IF EndsWith(n, <<".", "b", "m", "p">>) THEN "BMP"
      ELSE IF EndsWith(n, <<".", "g", "i", "f">>) THEN "GIF"
      ELSE "unknown"

\* ------------------------------------------------------------------ images

NoImage == [mode |-> "none", size |-> <<0, 0>>, data |-> <<>>, info |-> {}]

NoKwargs == [passed |-> {}, optimize |-> FALSE, quality |-> 0]

CleanupKwargs ==
  [passed |-> {"optimize", "quality"}, optimize |-> TRUE, quality |-> Quality]

Absent == [kind |-> "absent", img |-> NoImage, format |-> "none", kwargs |-> NoKwargs]

Directory == [kind |-> "dir", img |-> NoImage, format |-> "none", kwargs |-> NoKwargs]

Corrupt == [kind |-> "corrupt", img |-> NoImage, format |-> "none", kwargs |-> NoKwargs]

TextFile == [kind |-> "text", img |-> NoImage, format |-> "none", kwargs |-> NoKwargs]

\* A file a previous run left in processed_images.
Stale == [kind |-> "stale", img |-> NoImage, format |-> "none", kwargs |-> NoKwargs]

ImageFile(img, format) ==
  [kind |-> "image", img |-> img, format |-> format, kwargs |-> NoKwargs]

Grey(v) == <<v, v, v>>

\* The 2x2 image of luminances 10, 200, 128, 129, carrying EXIF metadata.
ImageA ==
  [mode |-> "RGB", size |-> <<2, 2>>,
   data |-> <<Grey(10), Grey(200), Grey(128), Grey(129)>>, info |-> {"exif"}]

\* A 2x1 image that holds only the two default colors.
ImageB ==
  [mode |-> "RGB", size |-> <<2, 1>>,
   data |-> <<default_black_color, default_white_color>>, info |-> {}]

\* A 1x2 greyscale (mode "L") image.
ImageD ==
  [mode |-> "L", size |-> <<1, 2>>, data |-> << <<129>>, <<77>> >>, info |-> {"dpi"}]

\* What lies on disk under each candidate name.
Catalogue(name) ==
  IF name = NameA THEN ImageFile(ImageA, "PNG")
  ELSE IF name = NameB THEN ImageFile(ImageB, "JPEG")
  ELSE IF name = NameC THEN Corrupt
  ELSE IF name = NameD THEN ImageFile(ImageD, "JPEG")
  ELSE TextFile

\* --------------------------------------------------------------- pipeline

\* Image.convert("L") on one pixel: the ITU-R 601 luma, in PIL's fixed point
\* (R*19595 + G*38470 + B*7471 + 0x8000) >> 16; an "L" pixel is its value.
Luminance(pixel) ==
  IF Len(pixel) = 1 THEN pixel[1]
  ELSE (pixel[1] * 19595 + pixel[2] * 38470 + pixel[3] * 7471 + 32768) \div 65536

\* image.convert("L"): same size, one band, the metadata copied.
ConvertL(im) ==
  [mode |-> "L", size |-> im.size,
   data |-> [i \in 1..Len(im.data) |-> <<Luminance(im.data[i])>>],
   info |-> im.info]

\* Lut with the boundary on the light side: 128 itself classified light.
LutInclusive(x) == IF x >= threshold THEN 255 ELSE 0

\* The lambda of line 21.
Lut(x) == IF x > threshold THEN 255 ELSE 0

\* Point with the binarization left out: the greyscale image is passed on.
PointSkipped(im) == im

\* bw_image.point(lut, '1'): the table is applied to every value and the
\* result stored in a mode "1" image.
Point(im) ==
  [mode |-> "1", size |-> im.size,
   data |-> [i \in 1..Len(im.data) |-> <<Lut(im.data[i][1])>>],
   info |-> im.info]

\* bw_image.convert("RGB") on a one-band image: mode "1" maps a nonzero
\* value to 255 and zero to 0; the value is then copied to the three bands.
ConvertRGB(im) ==
  [mode |-> "RGB", size |-> im.size,
   data |-> [i \in 1..Len(im.data) |->
               LET v == IF im.mode = "1"
                        THEN (IF im.data[i][1] # 0 THEN 255 ELSE 0)
                        ELSE im.data[i][1]
               IN  <<v, v, v>>],
   info |-> im.info]

\* replace_pixel_color with the two replacement colors exchanged.
replace_pixel_color_swapped(pixel, black, white) ==
  IF pixel = <<255, 255, 255>> THEN black
  ELSE IF pixel = <<0, 0, 0>> THEN white
  ELSE pixel

\* replace_pixel_color of lines 26-31.
replace_pixel_color(pixel, black, white) ==
  IF pixel = <<255, 255, 255>> THEN white
  ELSE IF pixel = <<0, 0, 0>> THEN black
  ELSE pixel

\* Lines 33-38: Image.new("RGB", size) (no metadata) filled pixel by pixel.
MapImage(bw, black, white) ==
  [mode |-> "RGB", size |-> bw.size,
   data |-> [i \in 1..Len(bw.data) |-> replace_pixel_color(bw.data[i], black, white)],
   info |-> {}]

\* The value of a pixel computed by the resampling filter. The filter's
\* arithmetic is the library's; the model keeps only that such a pixel is
\* a computed one, not one copied from the source.
Resampled == <<-1, -1, -1>>

\* ResizeImage with the size read as (height, width).
ResizeImageSwapped(im, dim) ==
  IF im.size = dim THEN im
  ELSE [mode |-> im.mode, size |-> <<dim[2], dim[1]>>,
        data |-> [i \in 1..(dim[1] * dim[2]) |-> Resampled],
        info |-> im.info]

\* Image.resize(size, resample): an image of exactly the requested size.
\* PIL returns a copy when the size is already the requested one.
ResizeImage(im, dim) ==
  IF im.size = dim THEN im
  ELSE [mode |-> im.mode, size |-> dim,
        data |-> [i \in 1..(dim[1] * dim[2]) |-> Resampled],
        info |-> im.info]

\* ------------------------------------------------------------------- state

VARIABLES
  pc,              \* the statement the program is at
  caller,          \* who called replace_colors: "main", "folder" or "direct"
  black_color,     \* configuration collected by main (or passed directly)
  white_color,
  cleanup,
  resize_dim,      \* <<>> is None, else <<width, height>>
  fs,              \* the file system: path -> file
  todo,            \* entries of os.listdir's result not yet enumerated
  image_path,      \* arguments and locals of the current replace_colors call
  output_path,
  image,
  bw_image,
  replaced_image,
  calls,           \* the (image_path, output_path) pairs replace_colors got
  resize_calls,    \* the sizes Image.resize was invoked with
  stdout,          \* what was printed, in order
  exception,       \* the exception propagating out of the program, if any
  retval           \* what process_images_in_folder returned to main

vars ==
  <<pc, caller, black_color, white_color, cleanup, resize_dim, fs, todo,
    image_path, output_path, image, bw_image, replaced_image, calls,
    resize_calls, stdout, exception, retval>>

NoPath == <<>>

Folder == <<FolderName>>

OutputFolder == Join(Folder, ProcessedImages)

AllPaths ==
  {Folder, OutputFolder, <<NameOut>>, <<NameOutPng>>, <<NameSrc>>}
    \cup {Join(Folder, n) : n \in Candidates}
    \cup {Join(OutputFolder, n) : n \in Candidates \cup {NameStale}}

Msg(m, path) == [msg |-> m, path |-> path]

NoException == [kind |-> "None", path |-> NoPath]

Raise(kind, path) == [kind |-> kind, path |-> path]

\* The width and height answers the operator types at lines 128-129.
Dims == {-1, 0} \cup (1..MaxDim)

\* os.listdir(folder): the names of the entries directly inside folder.
Listdir(files, folder) ==
  { p[Len(p)] : p \in { q \in DOMAIN files :
                          /\ Len(q) = Len(folder) + 1
                          /\ SubSeq(q, 1, Len(folder)) = folder
                          /\ files[q].kind # "absent" } }

\* os.makedirs(path, exist_ok=True)
Makedirs(files, path) ==
  IF files[path].kind = "absent" THEN [files EXCEPT ![path] = Directory] ELSE files

\* The source folders the program is run on: at most MaxFiles of the
\* candidate files, and either no processed_images yet or the one a previous
\* run left (pre), holding an output for a.png and a file of its own.
Disk(present, pre) ==
  [p \in AllPaths |->
     IF p = Folder THEN Directory
     ELSE IF p = OutputFolder THEN (IF pre THEN Directory ELSE Absent)
     ELSE IF p \in {Join(OutputFolder, NameA), Join(OutputFolder, NameStale), <<NameOut>>}
          THEN (IF pre THEN Stale ELSE Absent)
     ELSE IF Len(p) = 2 /\ p[2] \in present THEN Catalogue(p[2])
     ELSE Absent]

Disks ==
  { Disk(present, pre) :
      present \in {s \in SUBSET Candidates : Cardinality(s) <= MaxFiles},
      pre \in BOOLEAN }

Init ==
  /\ pc = "main"
  /\ caller = "none"
  /\ black_color = default_black_color
  /\ white_color = default_white_color
  /\ cleanup = FALSE
  /\ resize_dim = <<>>
  /\ fs \in Disks
  /\ todo = {}
  /\ image_path = NoPath
  /\ output_path = NoPath
  /\ image = NoImage
  /\ bw_image = NoImage
  /\ replaced_image = NoImage
  /\ calls = <<>>
  /\ resize_calls = <<>>
  /\ stdout = <<>>
  /\ exception = NoException
  /\ retval = "unset"

Locals == <<image, bw_image, replaced_image>>

Config == <<black_color, white_color, cleanup, resize_dim>>

\* ------------------------------------------------------------------- main

\* Lines 116-132 when both colors are obtained: the two colors, the cleanup
\* answer and the resize answer. parsed = FALSE is the ValueError branch of
\* lines 131-132, which prints and leaves resize_dim None.
MainPrompts ==
  /\ pc = "main"
  /\ \E b \in BlackChoices, w \in WhiteChoices, c \in BOOLEAN,
        resize \in BOOLEAN, parsed \in BOOLEAN, width \in Dims, height \in Dims :
       /\ black_color' = b
       /\ white_color' = w
       /\ cleanup' = c
       /\ resize_dim' = IF resize /\ parsed THEN <<width, height>> ELSE <<>>
       /\ stdout' =
            <<Msg("select_black", NoPath), Msg("select_white", NoPath)>>
              \o (IF resize /\ ~parsed THEN <<Msg("invalid_dimensions", NoPath)>> ELSE <<>>)
  /\ pc' = "choice"
  /\ UNCHANGED <<caller, fs, todo, image_path, output_path, Locals, calls,
                 resize_calls, exception, retval>>

\* Lines 85-89: the color picker is cancelled; pick_color_or_default prints
\* and calls exit().
MainExit ==
  /\ pc = "main"
  /\ stdout' = <<Msg("select_black", NoPath), Msg("no_color_selected", NoPath)>>
  /\ pc' = "exited"
  /\ UNCHANGED <<caller, Config, fs, todo, image_path, output_path, Locals,
                 calls, resize_calls, exception, retval>>

\* The call replace_colors(ip, black_color, white_color, op, cleanup, resize_dim).
Call(who, ip, op) ==
  /\ caller' = who
  /\ image_path' = ip
  /\ output_path' = op
  /\ calls' = Append(calls, <<ip, op>>)
  /\ pc' = "open"

\* Lines 137-142 with both dialogs answered: any regular file of the folder
\* can be selected, and the result saved as JPEG or PNG.
MainImage ==
  /\ pc = "choice"
  /\ \E n \in Listdir(fs, Folder), op \in {<<NameOut>>, <<NameOutPng>>} :
       /\ fs[Join(Folder, n)].kind # "dir"
       /\ Call("main", Join(Folder, n), op)
  /\ UNCHANGED <<Config, fs, todo, Locals, resize_calls, stdout, exception, retval>>

\* Lines 139, 141, 145: a dialog is cancelled and main ends.
MainCancel ==
  /\ pc = "choice"
  /\ pc' = "done"
  /\ UNCHANGED <<caller, Config, fs, todo, image_path, output_path, Locals,
                 calls, resize_calls, stdout, exception, retval>>

\* Lines 147-148.
MainInvalid ==
  /\ pc = "choice"
  /\ stdout' = Append(stdout, Msg("invalid_choice", NoPath))
  /\ pc' = "done"
  /\ UNCHANGED <<caller, Config, fs, todo, image_path, output_path, Locals,
                 calls, resize_calls, exception, retval>>

\* Lines 143-146 and 59-60: the folder is chosen, process_images_in_folder
\* is entered and creates processed_images if it is absent.
MainFolder ==
  /\ pc = "choice"
  /\ caller' = "folder"
  /\ fs' = Makedirs(fs, OutputFolder)
  /\ pc' = "listdir"
  /\ UNCHANGED <<Config, todo, image_path, output_path, Locals, calls,
                 resize_calls, stdout, exception, retval>>

\* ------------------------------------------------- process_images_in_folder

\* Line 62: os.listdir(folder_path) is evaluated once, after makedirs.
ListFolder ==
  /\ pc = "listdir"
  /\ todo' = Listdir(fs, Folder)
  /\ pc' = "for"
  /\ UNCHANGED <<caller, Config, fs, image_path, output_path, Locals, calls,
                 resize_calls, stdout, exception, retval>>

\* Lines 62-66, one iteration. os.listdir returns the entries in arbitrary
\* order: the loop takes any entry not yet enumerated. An entry that passes
\* the extension test is handed to replace_colors, any other is skipped.
ForEntry ==
  /\ pc = "for"
  /\ \E file_name \in todo :
       /\ todo' = todo \ {file_name}
       /\ IF IsImageName(file_name)
          THEN Call("folder", Join(Folder, file_name), Join(OutputFolder, file_name))
          ELSE /\ pc' = "for"
               /\ UNCHANGED <<caller, image_path, output_path, calls>>
  /\ UNCHANGED <<Config, fs, Locals, resize_calls, stdout, exception, retval>>

\* Line 68 and the implicit return None, once the listing is exhausted.
ForEnd ==
  /\ pc = "for"
  /\ todo = {}
  /\ stdout' = Append(stdout, Msg("all_processed", OutputFolder))
  /\ retval' = "None"
  /\ pc' = "done"
  /\ UNCHANGED <<caller, Config, fs, todo, image_path, output_path, Locals,
                 calls, resize_calls, exception>>

\* ---------------------------------------------------------- replace_colors

\* The exception Image.open raises for a path that holds no image.
OpenError(file) ==
  IF file.kind = "absent" THEN "FileNotFoundError"
  ELSE IF file.kind = "dir" THEN "IsADirectoryError"
  ELSE "UnidentifiedImageError"

\* Open with a handler around Image.open that reports the file and returns
\* normally to the caller.
OpenSwallow ==
  /\ pc = "open"
  /\ IF fs[image_path].kind = "image"
     THEN /\ image' = fs[image_path].img
          /\ pc' = "threshold"
          /\ UNCHANGED stdout
     ELSE /\ stdout' = Append(stdout, Msg("error", image_path))
          /\ pc' = IF caller = "folder" THEN "for" ELSE "done"
          /\ UNCHANGED image
  /\ UNCHANGED <<caller, Config, fs, todo, image_path, output_path, bw_image,
                 replaced_image, calls, resize_calls, exception, retval>>

\* Line 16. No handler encloses the call in replace_colors, in
\* process_images_in_folder or in main: an exception ends the program.
Open ==
  /\ pc = "open"
  /\ IF fs[image_path].kind = "image"
     THEN /\ image' = fs[image_path].img
          /\ pc' = "threshold"
          /\ UNCHANGED exception
     ELSE /\ exception' = Raise(OpenError(fs[image_path]), image_path)
          /\ pc' = "raised"
          /\ UNCHANGED image
  /\ UNCHANGED <<caller, Config, fs, todo, image_path, output_path, bw_image,
                 replaced_image, calls, resize_calls, stdout, retval>>

\* Lines 19-24.
Threshold ==
  /\ pc = "threshold"
  /\ bw_image' = ConvertRGB(Point(ConvertL(image)))
  /\ pc' = "map"
  /\ UNCHANGED <<caller, Config, fs, todo, image_path, output_path, image,
                 replaced_image, calls, resize_calls, stdout, exception, retval>>

\* Lines 33-38.
MapColors ==
  /\ pc = "map"
  /\ replaced_image' = MapImage(bw_image, black_color, white_color)
  /\ pc' = "resize"
  /\ UNCHANGED <<caller, Config, fs, todo, image_path, output_path, image,
                 bw_image, calls, resize_calls, stdout, exception, retval>>

\* Lines 41-42. Any tuple is truthy, so every (width, height) main built is
\* passed to Image.resize, which raises ValueError ("height and width must
\* be > 0") for a size with a non-positive side. Image.ANTIALIAS is taken
\* to exist (Pillow before 10).
Resize ==
  /\ pc = "resize"
  /\ IF resize_dim # <<>>
     THEN /\ resize_calls' = Append(resize_calls, resize_dim)
          /\ IF resize_dim[1] >= 1 /\ resize_dim[2] >= 1
             THEN /\ replaced_image' = ResizeImage(replaced_image, resize_dim)
                  /\ pc' = "save"
                  /\ UNCHANGED exception
             ELSE /\ exception' = Raise("ValueError", NoPath)
                  /\ pc' = "raised"
                  /\ UNCHANGED replaced_image
     ELSE /\ pc' = "save"
          /\ UNCHANGED <<replaced_image, resize_calls, exception>>
  /\ UNCHANGED <<caller, Config, fs, todo, image_path, output_path, image,
                 bw_image, calls, stdout, retval>>

\* Image.save(path, **kwargs): the file holds the image handed in, encoded
\* in the format of the extension with the given parameters. The encoders
\* write metadata only from save's parameters and the image's own info.
Encode(im, path, kwargs) ==
  [kind |-> "image", img |-> im, format |-> FormatOf(path), kwargs |-> kwargs]

\* Lines 45-50, and the return to the caller.
Save ==
  /\ pc = "save"
  /\ IF FormatOf(output_path) = "unknown"
     THEN /\ exception' = Raise("ValueError", output_path)
          /\ pc' = "raised"
          /\ UNCHANGED <<fs, stdout>>
     ELSE /\ fs' = [fs EXCEPT ![output_path] =
                      Encode(replaced_image, output_path,
                             IF cleanup THEN CleanupKwargs ELSE NoKwargs)]
          /\ stdout' = Append(stdout, Msg("saved", output_path))
          /\ pc' = IF caller = "folder" THEN "for" ELSE "done"
          /\ UNCHANGED exception
  /\ UNCHANGED <<caller, Config, todo, image_path, output_path, Locals, calls,
                 resize_calls, retval>>

ReplaceColors == Open \/ Threshold \/ MapColors \/ Resize \/ Save

Next ==
  \/ MainPrompts \/ MainExit \/ MainImage \/ MainCancel \/ MainInvalid
  \/ MainFolder \/ ListFolder \/ ForEntry \/ ForEnd
  \/ ReplaceColors

Spec == Init /\ [][Next]_vars

\* ------------------------------------------- replace_colors called directly

\* The colors of the pixels of the swept source images.
Palette == {Black, default_white_color, Navy}

\* Every grey from 0 to 255 once, as a 256x1 RGB image: one pixel of each
\* luminance.
Ramp ==
  [mode |-> "RGB", size |-> <<256, 1>>,
   data |-> [i \in 1..256 |-> Grey(i - 1)], info |-> {}]

\* The same as a greyscale (mode "L") image.
RampL ==
  [mode |-> "L", size |-> <<256, 1>>,
   data |-> [i \in 1..256 |-> <<i - 1>>], info |-> {}]

\* The w x 1 and 1 x h RGB images over the palette.
Strips ==
  UNION { { [mode |-> "RGB", size |-> <<n, 1>>, data |-> d, info |-> {"exif"}],
            [mode |-> "RGB", size |-> <<1, n>>, data |-> d, info |-> {"exif"}] } :
          n \in 1..MaxSide, d \in UNION { [1..k -> Palette] : k \in 1..MaxSide } }

SweepImages ==
  {Ramp, RampL} \cup { im \in Strips : Len(im.data) = im.size[1] * im.size[2] }

SweepFiles == {ImageFile(im, "BMP") : im \in SweepImages} \cup {Corrupt}

\* replace_colors(image_path, black_color, white_color, output_path, cleanup,
\* resize_dim) called on its own, on any swept source and configuration.
InitSweep ==
  /\ pc = "open"
  /\ caller = "direct"
  /\ black_color \in SweepColors
  /\ white_color \in SweepColors
  /\ cleanup \in BOOLEAN
  /\ resize_dim \in {<<>>} \cup (Dims \X Dims)
  /\ \E f \in SweepFiles : fs = [Disk({}, FALSE) EXCEPT ![<<NameSrc>>] = f]
  /\ todo = {}
  /\ image_path = <<NameSrc>>
  /\ output_path = <<NameOutPng>>
  /\ image = NoImage
  /\ bw_image = NoImage
  /\ replaced_image = NoImage
  /\ calls = << <<(<<NameSrc>>), (<<NameOutPng>>)>> >>
  /\ resize_calls = <<>>
  /\ stdout = <<>>
  /\ exception = NoException
  /\ retval = "unset"

SpecSweep == InitSweep /\ [][ReplaceColors]_vars

\* ------------------------------------------------------------- observables

\* The latest replace_colors call has returned normally and no other was
\* started since: its arguments and locals are still those of that call.
Returned ==
  /\ pc \in {"for", "done"}
  /\ stdout # <<>>
  /\ stdout[Len(stdout)] = Msg("saved", output_path)

\* process_images_in_folder has ended, by returning or by an exception.
BatchEnded == caller = "folder" /\ pc \in {"done", "raised"}

\* The entries of the source folder that pass the extension test.
Eligible == { n \in Listdir(fs, Folder) : IsImageName(n) }

Positive(dim) == dim[1] >= 1 /\ dim[2] >= 1

\* The eligible entries the pipeline can process under the configuration.
Processable ==
  { n \in Eligible :
      /\ fs[Join(Folder, n)].kind = "image"
      /\ (resize_dim = <<>> \/ Positive(resize_dim)) }

\* The paths the program reported as saved, from what it printed.
ReportedSaved ==
  { stdout[i].path : i \in { j \in 1..Len(stdout) : stdout[j].msg = "saved" } }

\* The failures the program reported: the exception that left it, if any.
ReportedFailures == IF exception.kind = "None" THEN {} ELSE {exception}

Pixels(im) == { im.data[i] : i \in 1..Len(im.data) }

\* ------------------------------------------------------------------ claims

\* C1: without resize, every output pixel is white_color when the source
\* pixel's luminance is strictly greater than 128 and black_color otherwise
\* (so 0..128 give black_color and 129..255 give white_color); when the two
\* colors differ, the output pixel is white_color iff the luminance is > 128.
C1_Threshold ==
  (Returned /\ resize_dim = <<>>) =>
     LET out == fs[output_path].img
     IN  /\ Len(out.data) = Len(image.data)
         /\ \A i \in 1..Len(image.data) :
              /\ Luminance(image.data[i]) \in 0..128 => out.data[i] = black_color
              /\ Luminance(image.data[i]) \in 129..255 => out.data[i] = white_color
              /\ Luminance(image.data[i]) \in 0..255
              /\ black_color # white_color =>
                   (out.data[i] = white_color <=> Luminance(image.data[i]) > 128)

\* A source holding the luminances 127, 128 and 129 was processed without
\* resize into two different colors.
C1_Witness ==
  /\ Returned /\ resize_dim = <<>> /\ black_color # white_color
  /\ {Grey(127), Grey(128), Grey(129)} \subseteq Pixels(image)
  /\ fs[output_path].img.data[129] = black_color
  /\ fs[output_path].img.data[130] = white_color

\* C2: when a batch run has ended, every eligible file of the folder was
\* handed to the pipeline, and every one the pipeline can process has its
\* output written, whichever files failed and wherever they came in the
\* enumeration.
C2_FailureIsolated ==
  BatchEnded =>
    \A n \in Eligible :
      /\ \E i \in 1..Len(calls) : calls[i][1] = Join(Folder, n)
      /\ n \in Processable => fs[Join(OutputFolder, n)].kind = "image"

\* C3: when a batch run has ended, what the caller can observe (the return
\* value, the printed messages, the exception) gives the number of files
\* attempted and, for each file that failed, its identity and error kind.
C3_SummaryObservable ==
  BatchEnded =>
    /\ Cardinality(ReportedSaved) + Cardinality(ReportedFailures)
         = Cardinality(Eligible)
    /\ Cardinality(ReportedSaved) = Cardinality(Processable)
    /\ \A n \in Eligible \ Processable :
         \E f \in ReportedFailures : f.path = Join(Folder, n)

\* C4: the resizer is never invoked with a non-positive width or height, and
\* a non-positive request ends in an invalid-dimensions error.
C4_NonPositiveRejected ==
  /\ \A i \in 1..Len(resize_calls) : Positive(resize_calls[i])
  /\ (pc = "raised" /\ resize_dim # <<>> /\ ~Positive(resize_dim)
        /\ fs[image_path].kind = "image")
       => exception.kind = "InvalidDimensionsError"

\* C5: the image written has the size of the source when resize_dim is
\* None, and exactly the requested (width, height) when it is given (which,
\* for a write to happen, is a pair of positive integers).
C5_Dimensions ==
  Returned =>
    LET out == fs[output_path].img
    IN  /\ out.size = (IF resize_dim = <<>> THEN image.size ELSE resize_dim)
        /\ Len(out.data) = out.size[1] * out.size[2]

\* An image was written at a requested size that differs from the source's
\* in both width and height order (not square, not the source size).
C5_Witness ==
  /\ Returned /\ resize_dim # <<>>
  /\ resize_dim # image.size
  /\ resize_dim[1] # resize_dim[2]
  /\ fs[output_path].img.size = resize_dim

\* C6: the binarized image holds only (0,0,0) and (255,255,255), and the
\* color-mapped image, before the optional resize, holds only black_color
\* and white_color: the pass-through branch of replace_pixel_color is never
\* taken.
C6_OnlyTwoColors ==
  /\ pc \in {"map", "resize"} => Pixels(bw_image) \subseteq {Black, White}
  /\ pc = "resize" =>
       /\ Pixels(replaced_image) \subseteq {black_color, white_color}
       /\ Len(replaced_image.data) = Len(image.data)

\* A source with pixels that are neither pure black nor pure white, nor one
\* of the two configured colors, has been color-mapped.
C6_Witness ==
  /\ pc = "resize"
  /\ \E px \in Pixels(image) : px \notin {Black, White, black_color, white_color}
  /\ Pixels(replaced_image) = {black_color, white_color}
  /\ black_color # white_color

\* The source is an RGB image that holds only the two configured colors and
\* was processed without resize.
AlreadyBichrome ==
  /\ Returned /\ resize_dim = <<>>
  /\ image.mode = "RGB"
  /\ Pixels(image) \subseteq {black_color, white_color}

\* C7 as stated: for any two colors, the pipeline reproduces an image that
\* already holds only those two colors.
C7_IdempotentAnyColors ==
  AlreadyBichrome => fs[output_path].img.data = image.data

\* C7 amended: the pipeline reproduces such an image when black_color has
\* luminance at most 128 and white_color luminance above 128, which the
\* defaults (0,0,0) and (243,239,221) satisfy.
C7_IdempotentWhenClassified ==
  /\ (AlreadyBichrome /\ Luminance(black_color) <= threshold
        /\ Luminance(white_color) > threshold)
       => fs[output_path].img.data = image.data
  /\ (AlreadyBichrome /\ black_color = default_black_color
        /\ white_color = default_white_color)
       => fs[output_path].img.data = image.data

\* An image holding both default colors was processed with the defaults.
C7_Witness ==
  /\ AlreadyBichrome
  /\ black_color = default_black_color /\ white_color = default_white_color
  /\ Pixels(image) = {default_black_color, default_white_color}
  /\ fs[output_path].img.data = image.data

\* C8: when a batch run has ended, the files handed to the pipeline are
\* exactly the eligible entries directly inside the folder, each with the
\* output path <folder>/processed_images/<name>, and each result is written;
\* processed_images exists.
C8_ExactlyEligible ==
  BatchEnded =>
    /\ { calls[i] : i \in 1..Len(calls) }
         = { <<Join(Folder, n), Join(OutputFolder, n)>> : n \in Eligible }
    /\ \A n \in Eligible : fs[Join(OutputFolder, n)].kind = "image"
    /\ fs[OutputFolder].kind = "dir"

\* The half of C8 the code does keep: whatever is handed to the pipeline is
\* an eligible entry directly inside the folder, with its output path under
\* processed_images, which exists from the listing on.
CallsAreEligible ==
  caller = "folder" =>
    /\ \A i \in 1..Len(calls) :
         \E n \in Eligible : calls[i] = <<Join(Folder, n), Join(OutputFolder, n)>>
    /\ fs[OutputFolder].kind = "dir"

\* C9: the written file follows the cleanup flag alone: without cleanup it
\* is written with no encoder parameters and carries the source's metadata,
\* with cleanup it carries no metadata and is written at quality 85.
C9_EncoderPolicy ==
  Returned =>
    LET file == fs[output_path]
    IN  IF cleanup
        THEN /\ file.img.info = {}
             /\ "quality" \in file.kwargs.passed
             /\ file.kwargs.quality = 85
        ELSE /\ file.kwargs.passed = {}
             /\ file.img.info = image.info

\* C10: a replace_colors step before encoding never touches the file system
\* or prints; a source that cannot be decoded and a resize that raises make
\* the call end with the exception propagating, with nothing written.
C10_FailurePropagates ==
  [][ /\ pc \in {"open", "threshold", "map", "resize"} =>
           /\ fs' = fs
           /\ stdout' = stdout
      /\ (pc = "open" /\ fs[image_path].kind # "image") => pc' = "raised"
      /\ (pc = "resize" /\ resize_dim # <<>> /\ ~Positive(resize_dim)) => pc' = "raised"
      /\ (pc # "raised" /\ pc' = "raised") =>
           /\ exception'.kind # "None"
           /\ fs'[output_path] = fs[output_path]
           /\ Msg("saved", output_path) \notin { stdout'[i] : i \in 1..Len(stdout') }
    ]_vars

\* The resize stage raised in a batch run whose output file already existed
\* from a previous run, and the file is still the old one.
C10_Witness ==
  /\ pc = "raised"
  /\ caller = "folder"
  /\ exception.kind = "ValueError"
  /\ resize_calls # <<>>
  /\ fs[output_path].kind = "stale"

====
